---- MODULE Spec2Model ----
(***************************************************************************)
(* Model of app.py (CredTech): the two data fetchers, the rule-based       *)
(* scoring engine predict_credit_score and the "Analyze Creditworthiness"  *)
(* button handler that chains them.                                        *)
(*                                                                         *)
(* Python floats are modelled as exact rationals <<n, d>> in lowest terms. *)
(* The inputs are drawn from grids on which this is faithful to the        *)
(* float comparisons of the code: decimal literals for the provider's      *)
(* DebtToEquity text, dyadic values (k / 2^PolBits) for the polarities.    *)
(* A Python str that the code parses is a sequence of one-character        *)
(* strings; a str that is only displayed is a TLA+ string.  The non-ASCII  *)
(* marks that open the explanation lines in the source are left out of     *)
(* the string literals.                                                    *)
(***************************************************************************)
EXTENDS Integers, Sequences, FiniteSets

VARIABLES
    pc,              \* position of the script run: idle, financial, news, gate, done
    ticker_input,    \* st.text_input value of the run
    fin_response,    \* what requests.get gave fetch_financial_data in this run
    news_response,   \* what requests.get gave fetch_news_sentiment in this run
    financial_data,  \* return value of fetch_financial_data, Unset before the call
    news_data,       \* return value of fetch_news_sentiment, Unset before the call
    notices,         \* st.warning / st.error / st.success boxes of the run, in order
    result,          \* (score, explanation) shown by st.metric / st.info, or Unset
    hist_data        \* the 'Score' column of the illustrative chart, or Unset

vars == <<pc, ticker_input, fin_response, news_response, financial_data,
          news_data, notices, result, hist_data>>

----------------------------------------------------------------------------
(* Bounds of the model *)

\* largest integer part of a DebtToEquity text the primary provider sends
MaxDteInt == 1
\* largest number of articles in a news response (the request asks pageSize=20)
MaxArticles == 2
\* polarities are multiples of 1 / 2^PolBits in [-1, 1]
PolBits == 2
\* largest debt-to-equity, in hundredths, handed directly to the scoring engine
MaxDteIn == 200

----------------------------------------------------------------------------
(* Python values *)

\* Python's None
None == [NoneType |-> TRUE]
\* a name that is not bound yet in this run of the script
Unset == [unbound |-> TRUE]

Abs(x) == IF x < 0 THEN -x ELSE x

RECURSIVE GCD(_, _)
GCD(a, b) == IF b = 0 THEN a ELSE GCD(b, a % b)

\* the float with value n / d (d > 0), in lowest terms
Rat(n, d) ==
    LET g == GCD(Abs(n), d)
    IN  <<n \div g, d \div g>>

RatLT(a, b) == a[1] * b[2] < b[1] * a[2]
RatGT(a, b) == RatLT(b, a)
RatAdd(a, b) == Rat(a[1] * b[2] + b[1] * a[2], a[2] * b[2])
RatDivInt(a, k) == Rat(a[1], a[2] * k)

\* builtins max and min on two ints
Max(a, b) == IF a > b THEN a ELSE b
Min(a, b) == IF a < b THEN a ELSE b

\* format(x, ".2f"): the number of hundredths printed, round-half-even
Fmt2(x) ==
    LET q == (100 * x[1]) \div x[2]
        r == (100 * x[1]) % x[2]
    IN  IF 2 * r > x[2] THEN q + 1
        ELSE IF 2 * r = x[2] THEN (IF q % 2 = 0 THEN q ELSE q + 1)
        ELSE q

\* bool(x) of a dict-or-None value: None and the empty dict are falsy
Truthy(x) == x # None /\ DOMAIN x # {}

----------------------------------------------------------------------------
(* predict_credit_score *)

BaseScore == 50
BaseLine == <<"Base Score: 50">>

\* Rule 1 with the first threshold inclusive (<= 0.5)
Rule1Inclusive(dte_ratio) ==
    IF RatLT(dte_ratio, Rat(1, 2)) \/ dte_ratio = Rat(1, 2)
    THEN [pts |-> 20,
          line |-> <<"Very Low Debt-to-Equity (", Fmt2(dte_ratio),
                     ") is a strong positive signal. (+20 pts)">>]
    ELSE IF RatLT(dte_ratio, Rat(1, 1))
    THEN [pts |-> 10,
          line |-> <<"Healthy Debt-to-Equity (", Fmt2(dte_ratio),
                     ") is a good sign. (+10 pts)">>]
    ELSE [pts |-> -20,
          line |-> <<"High Debt-to-Equity (", Fmt2(dte_ratio),
                     ") increases financial risk. (-20 pts)">>]

\* Rule 1 with a penalty of 80 for high leverage
Rule1HeavyPenalty(dte_ratio) ==
    IF RatLT(dte_ratio, Rat(1, 2))
    THEN [pts |-> 20,
          line |-> <<"Very Low Debt-to-Equity (", Fmt2(dte_ratio),
                     ") is a strong positive signal. (+20 pts)">>]
    ELSE IF RatLT(dte_ratio, Rat(1, 1))
    THEN [pts |-> 10,
          line |-> <<"Healthy Debt-to-Equity (", Fmt2(dte_ratio),
                     ") is a good sign. (+10 pts)">>]
    ELSE [pts |-> -80,
          line |-> <<"High Debt-to-Equity (", Fmt2(dte_ratio),
                     ") increases financial risk. (-20 pts)">>]

\* Rule 1: the Debt-to-Equity ratio
Rule1(dte_ratio) ==
    IF RatLT(dte_ratio, Rat(1, 2))
    THEN [pts |-> 20,
          line |-> <<"Very Low Debt-to-Equity (", Fmt2(dte_ratio),
                     ") is a strong positive signal. (+20 pts)">>]
    ELSE IF RatLT(dte_ratio, Rat(1, 1))
    THEN [pts |-> 10,
          line |-> <<"Healthy Debt-to-Equity (", Fmt2(dte_ratio),
                     ") is a good sign. (+10 pts)">>]
    ELSE [pts |-> -20,
          line |-> <<"High Debt-to-Equity (", Fmt2(dte_ratio),
                     ") increases financial risk. (-20 pts)">>]

\* Rule 2 with the negative branch adding 20 instead of subtracting it
Rule2SignSlip(sentiment) ==
    IF RatGT(sentiment, Rat(1, 5))
    THEN [pts |-> 20,
          line |-> <<"Strong Positive News Sentiment (", Fmt2(sentiment),
                     ") suggests a good public outlook. (+20 pts)">>]
    ELSE IF RatLT(sentiment, Rat(-1, 5))
    THEN [pts |-> 20,
          line |-> <<"Strong Negative News Sentiment (", Fmt2(sentiment),
                     ") suggests potential issues. (-20 pts)">>]
    ELSE [pts |-> 0,
          line |-> <<"Neutral News Sentiment (", Fmt2(sentiment),
                     ") has no major impact. (+0 pts)">>]

\* Rule 2: the average sentiment of the news headlines
Rule2(sentiment) ==
    IF RatGT(sentiment, Rat(1, 5))
    THEN [pts |-> 20,
          line |-> <<"Strong Positive News Sentiment (", Fmt2(sentiment),
                     ") suggests a good public outlook. (+20 pts)">>]
    ELSE IF RatLT(sentiment, Rat(-1, 5))
    THEN [pts |-> -20,
          line |-> <<"Strong Negative News Sentiment (", Fmt2(sentiment),
                     ") suggests potential issues. (-20 pts)">>]
    ELSE [pts |-> 0,
          line |-> <<"Neutral News Sentiment (", Fmt2(sentiment),
                     ") has no major impact. (+0 pts)">>]

\* the two caps added instead of nested
ClampSummed(score) == Max(0, score) + Min(100, score)

\* final_score = max(0, min(100, score))
Clamp(score) == Max(0, Min(100, score))

\* the sentiment line appended before the leverage line
predict_credit_score_swapped(fd, nd) ==
    LET r1 == Rule1(fd.debt_to_equity)
        r2 == Rule2(nd.news_sentiment_score)
        score == BaseScore + r1.pts + r2.pts
    IN  [score |-> Clamp(score),
         explanation |-> <<BaseLine, r2.line, r1.line>>]

predict_credit_score(fd, nd) ==
    LET r1 == Rule1(fd.debt_to_equity)
        r2 == Rule2(nd.news_sentiment_score)
        score == BaseScore + r1.pts + r2.pts
    IN  [score |-> Clamp(score),
         explanation |-> <<BaseLine, r1.line, r2.line>>]

----------------------------------------------------------------------------
(* JSON values and float(str) *)

JNull == [t |-> "null"]
JStr(s) == [t |-> "str", v |-> s]
JList(l) == [t |-> "list", v |-> l]

Digits == <<"0", "1", "2", "3", "4", "5", "6", "7", "8", "9">>
IsDigit(c) == \E i \in 1..10 : Digits[i] = c
DigitVal(c) == (CHOOSE i \in 1..10 : Digits[i] = c) - 1

RECURSIVE DigitsVal(_)
DigitsVal(s) ==
    IF s = <<>> THEN 0
    ELSE 10 * DigitsVal(SubSeq(s, 1, Len(s) - 1)) + DigitVal(s[Len(s)])

RECURSIVE Pow10(_)
Pow10(k) == IF k = 0 THEN 1 ELSE 10 * Pow10(k - 1)

\* float(text) on the texts of the model: an optional sign, digits, at most
\* one point and at least one digit; anything else raises ValueError
FloatOf(text) ==
    LET neg == Len(text) > 0 /\ text[1] = "-"
        body == IF neg THEN SubSeq(text, 2, Len(text)) ELSE text
        dots == {i \in 1..Len(body) : body[i] = "."}
        wellformed ==
            /\ \A i \in 1..Len(body) : IsDigit(body[i]) \/ body[i] = "."
            /\ Cardinality(dots) <= 1
            /\ \E i \in 1..Len(body) : IsDigit(body[i])
        dot == IF dots = {} THEN Len(body) + 1 ELSE CHOOSE i \in dots : TRUE
        int == SubSeq(body, 1, dot - 1)
        frac == SubSeq(body, dot + 1, Len(body))
        mag == DigitsVal(int \o frac)
    IN  IF wellformed
        THEN [raised |-> FALSE,
              value |-> Rat(IF neg THEN -mag ELSE mag, Pow10(Len(frac)))]
        ELSE [raised |-> TRUE, value |-> Rat(0, 1)]

----------------------------------------------------------------------------
(* fetch_financial_data *)

\* What requests.get(url) can give: "ConnectionError" (get raises a
\* RequestException), "HTTPError" (raise_for_status raises on a non-2xx
\* status), "JSONDecodeError" (response.json raises a ValueError) or "json"
\* with the decoded object, a dict that always carries the Symbol key here.
Failures == {[kind |-> "ConnectionError"], [kind |-> "HTTPError"],
             [kind |-> "JSONDecodeError"]}

DecimalText(i, f) == <<Digits[i + 1], ".", Digits[f + 1]>>

DebtToEquityTexts ==
    {DecimalText(i, f) : i \in 0..MaxDteInt, f \in 0..9}
        \cup {<<"N", "o", "n", "e">>, <<"-">>, <<"-", "0", ".", "5">>}

PrimaryData ==
    {[Symbol |-> JStr(<<"X">>)], [Symbol |-> JStr(<<"X">>), DebtToEquity |-> JNull]}
        \cup {[Symbol |-> JStr(<<"X">>), DebtToEquity |-> JStr(t)] :
                 t \in DebtToEquityTexts}

PrimaryResponses == Failures \cup {[kind |-> "json", data |-> d] : d \in PrimaryData}

\* the return value and the notices of fetch_financial_data(ticker) when
\* requests.get gives response
fetch_financial_data(ticker, response) ==
    LET error == [ret |-> None,
                  notices |-> << <<"error", "Error fetching financial data">> >>]
    IN  IF response.kind # "json" THEN error
        ELSE LET data == response.data
             IN  IF "DebtToEquity" \in DOMAIN data /\ data["DebtToEquity"] # JNull
                 THEN LET f == FloatOf(data["DebtToEquity"].v)
                      IN  IF f.raised THEN error
                          ELSE [ret |-> [debt_to_equity |-> f.value],
                                notices |-> <<>>]
                 ELSE [ret |-> [debt_to_equity |-> Rat(1, 1)],
                       notices |-> << <<"warning",
                           "Debt-to-Equity ratio not available for ", ticker,
                           ". Using a neutral value.">> >>]

----------------------------------------------------------------------------
(* fetch_news_sentiment *)

RECURSIVE Pow2(_)
Pow2(k) == IF k = 0 THEN 1 ELSE 2 * Pow2(k - 1)
PolDen == Pow2(PolBits)

\* A headline is identified by the numerator of the polarity that the
\* sentiment scorer gives it: TextBlob(title).sentiment.polarity
Headlines == (-PolDen)..PolDen
polarity(title) == Rat(title, PolDen)

\* an article of the response: with its title, or without the 'title' key
Articles == {[title |-> h] : h \in Headlines} \cup {[url |-> "u"]}

RECURSIVE SeqsUpTo(_, _)
SeqsUpTo(S, n) ==
    IF n = 0 THEN {<<>>}
    ELSE LET shorter == SeqsUpTo(S, n - 1)
         IN  shorter \cup {Append(l, x) : l \in {m \in shorter : Len(m) = n - 1}, x \in S}

NewsData ==
    {[status |-> "ok"], [status |-> "ok", articles |-> JNull]}
        \cup {[status |-> "ok", articles |-> JList(l)] : l \in SeqsUpTo(Articles, MaxArticles)}

NewsResponses == Failures \cup {[kind |-> "json", data |-> d] : d \in NewsData}

\* the for loop over the articles: the sum of the polarities, or KeyError at
\* the first article without a title
RECURSIVE SentimentSum(_)
SentimentSum(articles) ==
    IF articles = <<>> THEN [raised |-> FALSE, value |-> Rat(0, 1)]
    ELSE LET before == SentimentSum(SubSeq(articles, 1, Len(articles) - 1))
             article == articles[Len(articles)]
         IN  IF before.raised \/ "title" \notin DOMAIN article
             THEN [raised |-> TRUE, value |-> Rat(0, 1)]
             ELSE [raised |-> FALSE,
                   value |-> RatAdd(before.value, polarity(article.title))]

\* the return value and the notices of fetch_news_sentiment(ticker) when
\* requests.get gives response
fetch_news_sentiment(ticker, response) ==
    LET error == [ret |-> None,
                  notices |-> << <<"error", "Error fetching news data">> >>]
    IN  IF response.kind # "json" THEN error
        ELSE LET data == response.data
                 \* data.get('articles', [])
                 articles == IF "articles" \in DOMAIN data THEN data.articles
                             ELSE JList(<<>>)
             IN  IF articles = JNull \/ articles.v = <<>>
                 THEN [ret |-> [news_sentiment_score |-> Rat(0, 1)],
                       notices |-> << <<"warning",
                           "No recent news articles found for ", ticker, ".">> >>]
                 ELSE LET sentiment_sum == SentimentSum(articles.v)
                      IN  IF sentiment_sum.raised THEN error
                          ELSE [ret |-> [news_sentiment_score |->
                                    RatDivInt(sentiment_sum.value, Len(articles.v))],
                                notices |-> <<>>]

----------------------------------------------------------------------------
(* The "Analyze Creditworthiness" handler: one run of the script *)

Tickers == {"", "NVDA"}

\* np.clip(x, 0, 100)
Clip(x) == Max(0, Min(100, x))

Cleared ==
    /\ fin_response = Unset
    /\ news_response = Unset
    /\ financial_data = Unset
    /\ news_data = Unset
    /\ result = Unset
    /\ hist_data = Unset

Init ==
    /\ pc = "idle"
    /\ ticker_input = "NVDA"
    /\ notices = <<>>
    /\ Cleared

\* The button is pressed: the script reruns from the top with the ticker of
\* the text box, and what the last run displayed is gone.
Analyze ==
    /\ pc \in {"idle", "done"}
    /\ \E t \in Tickers :
          /\ ticker_input' = t
          /\ IF t = ""
             THEN /\ notices' = << <<"warning", "Please enter a stock ticker to analyze.">> >>
                  /\ pc' = "done"
             ELSE /\ notices' = <<>>
                  /\ pc' = "financial"
    /\ fin_response' = Unset
    /\ news_response' = Unset
    /\ financial_data' = Unset
    /\ news_data' = Unset
    /\ result' = Unset
    /\ hist_data' = Unset

\* the run stops fetching once the financial fetch has failed
FetchFinancialThenStop ==
    /\ pc = "financial"
    /\ \E response \in PrimaryResponses :
          LET r == fetch_financial_data(ticker_input, response)
          IN  /\ fin_response' = response
              /\ financial_data' = r.ret
              /\ notices' = notices \o r.notices
              /\ pc' = IF r.ret = None THEN "gate" ELSE "news"
    /\ UNCHANGED <<ticker_input, news_response, news_data, result, hist_data>>

\* financial_data = fetch_financial_data(ticker_input)
FetchFinancial ==
    /\ pc = "financial"
    /\ \E response \in PrimaryResponses :
          LET r == fetch_financial_data(ticker_input, response)
          IN  /\ fin_response' = response
              /\ financial_data' = r.ret
              /\ notices' = notices \o r.notices
    /\ pc' = "news"
    /\ UNCHANGED <<ticker_input, news_response, news_data, result, hist_data>>

\* news_data = fetch_news_sentiment(ticker_input)
FetchNews ==
    /\ pc = "news"
    /\ \E response \in NewsResponses :
          LET r == fetch_news_sentiment(ticker_input, response)
          IN  /\ news_response' = response
              /\ news_data' = r.ret
              /\ notices' = notices \o r.notices
    /\ pc' = "gate"
    /\ UNCHANGED <<ticker_input, fin_response, financial_data, result, hist_data>>

\* if financial_data and news_data: score, display, chart
Score ==
    /\ pc = "gate"
    /\ IF Truthy(financial_data) /\ Truthy(news_data)
       THEN LET r == predict_credit_score(financial_data, news_data)
            IN  /\ result' = r
                /\ notices' = Append(notices, <<"success", "Analysis Complete!">>)
                /\ hist_data' = <<Clip(r.score - 10), Clip(r.score + 5), r.score>>
       ELSE UNCHANGED <<result, notices, hist_data>>
    /\ pc' = "done"
    /\ UNCHANGED <<ticker_input, fin_response, news_response, financial_data, news_data>>

Next == Analyze \/ FetchFinancial \/ FetchNews \/ Score

Spec == Init /\ [][Next]_vars

----------------------------------------------------------------------------
(* predict_credit_score on its own, applied to inputs drawn from a grid of  *)
(* hundredths: d in [0, MaxDteIn / 100], s in [-1, 1]                       *)

InitScore ==
    /\ pc = "call"
    /\ ticker_input = "NVDA"
    /\ notices = <<>>
    /\ fin_response = Unset
    /\ news_response = Unset
    /\ financial_data \in {[debt_to_equity |-> Rat(n, 100)] : n \in 0..MaxDteIn}
    /\ news_data \in {[news_sentiment_score |-> Rat(n, 100)] : n \in (-100)..100}
    /\ result = Unset
    /\ hist_data = Unset

Call ==
    /\ pc = "call"
    /\ result' = predict_credit_score(financial_data, news_data)
    /\ pc' = "returned"
    /\ UNCHANGED <<ticker_input, fin_response, news_response, financial_data,
                   news_data, notices, hist_data>>

NextScore == Call

SpecScore == InitScore /\ [][NextScore]_vars

----------------------------------------------------------------------------
(* Vocabulary of the properties *)

RatLE(a, b) == ~RatLT(b, a)

Returned == pc = "returned"
dIn == financial_data.debt_to_equity
sIn == news_data.news_sentiment_score

\* the rule tables of the scoring engine, as rows <<condition, delta, label>>
LeverageTable(d) ==
    << <<RatLT(d, Rat(1, 2)), 20, "Very Low Debt-to-Equity (">>,
       <<RatLE(Rat(1, 2), d) /\ RatLT(d, Rat(1, 1)), 10, "Healthy Debt-to-Equity (">>,
       <<RatLE(Rat(1, 1), d), -20, "High Debt-to-Equity (">> >>

SentimentTable(s) ==
    << <<RatGT(s, Rat(1, 5)), 20, "Strong Positive News Sentiment (">>,
       <<RatLT(s, Rat(-1, 5)), -20, "Strong Negative News Sentiment (">>,
       <<RatLE(Rat(-1, 5), s) /\ RatLE(s, Rat(1, 5)), 0, "Neutral News Sentiment (">> >>

\* the rows of a table whose condition holds
Rows(table) == {i \in 1..3 : table[i][1]}

\* the signed point delta that an explanation line carries at its end
PtsOfLine(line) ==
    CASE line[3] = ") is a strong positive signal. (+20 pts)" -> 20
      [] line[3] = ") is a good sign. (+10 pts)" -> 10
      [] line[3] = ") increases financial risk. (-20 pts)" -> -20
      [] line[3] = ") suggests a good public outlook. (+20 pts)" -> 20
      [] line[3] = ") suggests potential issues. (-20 pts)" -> -20
      [] line[3] = ") has no major impact. (+0 pts)" -> 0
      [] OTHER -> 1000

\* the delta of the branch that a label names
DeltaOfLabel(label) ==
    CASE label = "Very Low Debt-to-Equity (" -> 20
      [] label = "Healthy Debt-to-Equity (" -> 10
      [] label = "High Debt-to-Equity (" -> -20
      [] label = "Strong Positive News Sentiment (" -> 20
      [] label = "Strong Negative News Sentiment (" -> -20
      [] label = "Neutral News Sentiment (" -> 0
      [] OTHER -> 1000

LeverageLabels == {"Very Low Debt-to-Equity (", "Healthy Debt-to-Equity (",
                   "High Debt-to-Equity ("}
SentimentLabels == {"Strong Positive News Sentiment (",
                    "Strong Negative News Sentiment (", "Neutral News Sentiment ("}

----------------------------------------------------------------------------
(* Properties of predict_credit_score, checked under SpecScore *)

\* C1: for every debt-to-equity d >= 0 and every average sentiment s in
\* [-1, 1], the final score returned by predict_credit_score is an integer
\* in the closed range [0, 100].
C1_ScoreInRange ==
    (/\ Returned
     /\ RatLE(Rat(0, 1), dIn)
     /\ RatLE(Rat(-1, 1), sIn) /\ RatLE(sIn, Rat(1, 1)))
        => result.score \in 0..100

\* C1 happens: the worst input (high leverage, sentiment -1) has been scored
C1_Witness ==
    /\ Returned
    /\ dIn = Rat(3, 2) /\ sIn = Rat(-1, 1)
    /\ result.score = 10

\* C2: the rule branch is picked exactly as tabulated, boundaries included:
\* for every input exactly one row of the leverage table and exactly one row
\* of the sentiment table has a true condition, and the leverage line and
\* the sentiment line of the explanation carry that row's label and delta
\* (d = 0.5 is Healthy, d = 1.0 is High, s = 0.2 and s = -0.2 are Neutral).
C2_BranchAsTabulated ==
    Returned =>
        /\ Cardinality(Rows(LeverageTable(dIn))) = 1
        /\ Cardinality(Rows(SentimentTable(sIn))) = 1
        /\ \A i \in Rows(LeverageTable(dIn)) :
              /\ result.explanation[2][1] = LeverageTable(dIn)[i][3]
              /\ PtsOfLine(result.explanation[2]) = LeverageTable(dIn)[i][2]
        /\ \A i \in Rows(SentimentTable(sIn)) :
              /\ result.explanation[3][1] = SentimentTable(sIn)[i][3]
              /\ PtsOfLine(result.explanation[3]) = SentimentTable(sIn)[i][2]

\* C2 happens: an input on two boundaries, d = 0.5 and s = 0.2, was scored
\* Healthy and Neutral
C2_Witness ==
    /\ Returned
    /\ dIn = Rat(1, 2) /\ sIn = Rat(1, 5)
    /\ result.explanation[2][1] = "Healthy Debt-to-Equity ("
    /\ result.explanation[3][1] = "Neutral News Sentiment ("

\* C3: the explanation has exactly 3 entries in the order base line,
\* leverage line, sentiment line; the first is exactly "Base Score: 50";
\* the labels of entries 2 and 3 name the branches whose deltas were applied
\* to the score, each line carrying the delta of its own label.
C3_ExplanationShape ==
    Returned =>
        LET e == result.explanation
        IN  /\ Len(e) = 3
            /\ e[1] = <<"Base Score: 50">>
            /\ e[2][1] \in LeverageLabels
            /\ e[3][1] \in SentimentLabels
            /\ PtsOfLine(e[2]) = DeltaOfLabel(e[2][1])
            /\ PtsOfLine(e[3]) = DeltaOfLabel(e[3][1])
            /\ result.score = 50 + DeltaOfLabel(e[2][1]) + DeltaOfLabel(e[3][1])

\* C3 happens: d = 0.3, s = 0.4 gives 'Very Low' then 'Strong Positive'
C3_Witness ==
    /\ Returned
    /\ dIn = Rat(3, 10) /\ sIn = Rat(2, 5)
    /\ Len(result.explanation) = 3
    /\ result.explanation[2][1] = "Very Low Debt-to-Equity ("
    /\ result.explanation[3][1] = "Strong Positive News Sentiment ("

\* C4: the final score is clamp(50 + leverage delta + sentiment delta, 0,
\* 100), the clamp applied once to the sum of both deltas (d = 0.1, s = 0.5
\* gives 90; d = 2.0, s = -0.9 gives 10; d = 0.3, s = 0.4 gives 90).
C4_ClampedSum ==
    Returned =>
        \A i \in Rows(LeverageTable(dIn)), j \in Rows(SentimentTable(sIn)) :
            LET total == 50 + LeverageTable(dIn)[i][2] + SentimentTable(sIn)[j][2]
            IN  result.score =
                    IF total < 0 THEN 0 ELSE IF total > 100 THEN 100 ELSE total

\* C4 happens: d = 0.1, s = 0.5 was scored 90
C4_Witness ==
    /\ Returned
    /\ dIn = Rat(1, 10) /\ sIn = Rat(1, 2)
    /\ result.score = 90

----------------------------------------------------------------------------
(* Properties of the fetchers and of the handler, checked under Spec *)

FinJson == fin_response # Unset /\ fin_response.kind = "json"
NewsJson == news_response # Unset /\ news_response.kind = "json"

\* the primary response carries a ratio that float() accepts
PrimaryUsable ==
    /\ FinJson
    /\ "DebtToEquity" \in DOMAIN fin_response.data
    /\ fin_response.data["DebtToEquity"] # JNull
    /\ ~FloatOf(fin_response.data["DebtToEquity"].v).raised

\* the primary response succeeded but the field is absent, null or "None"
FieldMissing ==
    /\ FinJson
    /\ \/ "DebtToEquity" \notin DOMAIN fin_response.data
       \/ fin_response.data["DebtToEquity"] = JNull
       \/ fin_response.data["DebtToEquity"] = JStr(<<"N", "o", "n", "e">>)

\* fetch_financial_data took its except branch
ErrorShown ==
    \E i \in 1..Len(notices) : notices[i] = <<"error", "Error fetching financial data">>

\* C5: fetch_financial_data never fails: for every outcome of the primary
\* provider it returns a signal carrying a debt_to_equity value, the
\* primary's ratio when that is usable.
C5_ResolverNeverFails ==
    financial_data # Unset =>
        /\ financial_data # None
        /\ "debt_to_equity" \in DOMAIN financial_data
        /\ PrimaryUsable =>
              financial_data.debt_to_equity =
                  FloatOf(fin_response.data["DebtToEquity"].v).value

\* C6: a missing debt-to-equity field is not an error: when the primary
\* response succeeds but the field is absent, null or the sentinel "None",
\* the resolver reports no error and yields a defined default value.
C6_MissingFieldNotAnError ==
    (financial_data # Unset /\ FieldMissing) =>
        /\ ~ErrorShown
        /\ financial_data # None
        /\ "debt_to_equity" \in DOMAIN financial_data

\* What fetch_financial_data does return on the cases of C5 and C6: the
\* parsed ratio when the primary's text parses; 1.0 with a warning when the
\* field is absent or null; otherwise None with an error notice.
ResolverOutcomes ==
    financial_data # Unset =>
        /\ PrimaryUsable =>
              /\ financial_data =
                    [debt_to_equity |-> FloatOf(fin_response.data["DebtToEquity"].v).value]
              /\ ~ErrorShown
        /\ (FinJson /\ ("DebtToEquity" \notin DOMAIN fin_response.data
                           \/ fin_response.data["DebtToEquity"] = JNull)) =>
              /\ financial_data = [debt_to_equity |-> Rat(1, 1)]
              /\ ~ErrorShown
        /\ (~FinJson \/ (FieldMissing /\ "DebtToEquity" \in DOMAIN fin_response.data
                            /\ fin_response.data["DebtToEquity"] # JNull)) =>
              /\ financial_data = None
              /\ ErrorShown

\* the news response succeeded and lists no article
ZeroArticles ==
    /\ NewsJson
    /\ \/ "articles" \notin DOMAIN news_response.data
       \/ news_response.data.articles = JNull
       \/ news_response.data.articles.v = <<>>

\* C7: when the news provider answers successfully with zero articles,
\* fetch_news_sentiment returns the neutral default signal (average sentiment
\* 0.0, top headline "N/A") rather than an error result, and the request
\* still proceeds to scoring with the neutral sentiment branch (+0).
C7_ZeroArticlesNeutralDefault ==
    (news_data # Unset /\ ZeroArticles) =>
        /\ news_data # None
        /\ news_data.news_sentiment_score = Rat(0, 1)
        /\ pc = "done" =>
              /\ result # Unset
              /\ result.explanation[3][1] = "Neutral News Sentiment ("
        /\ "top_headline" \in DOMAIN news_data
        /\ news_data.top_headline = "N/A"

\* the news response succeeded with at least one article, each with a title
Headlined ==
    /\ NewsJson
    /\ "articles" \in DOMAIN news_response.data
    /\ news_response.data.articles # JNull
    /\ news_response.data.articles.v # <<>>
    /\ \A i \in DOMAIN news_response.data.articles.v :
          "title" \in DOMAIN news_response.data.articles.v[i]

RECURSIVE SumOfTitles(_)
SumOfTitles(articles) ==
    IF articles = <<>> THEN 0
    ELSE articles[1].title + SumOfTitles(Tail(articles))

\* the arithmetic mean of the polarities of the headlines
MeanOf(articles) == Rat(SumOfTitles(articles), PolDen * Len(articles))

\* the first headline that reaches the greatest absolute polarity
FirstMaxAbs(articles) ==
    LET i == CHOOSE i \in DOMAIN articles :
                 /\ \A j \in DOMAIN articles :
                       Abs(articles[j].title) <= Abs(articles[i].title)
                 /\ \A j \in 1..(i - 1) :
                       Abs(articles[j].title) < Abs(articles[i].title)
    IN  articles[i].title

\* C8: for a non-empty list of headlines the aggregator returns the
\* arithmetic mean of the polarities as average sentiment, and as
\* top_headline the headline with the greatest absolute polarity, the first
\* one on a tie.
C8_MeanAndTopHeadline ==
    (news_data # Unset /\ Headlined) =>
        /\ news_data # None
        /\ news_data.news_sentiment_score = MeanOf(news_response.data.articles.v)
        /\ "top_headline" \in DOMAIN news_data
        /\ news_data.top_headline = FirstMaxAbs(news_response.data.articles.v)

\* What fetch_news_sentiment does return on the cases of C7 and C8: the
\* score is 0.0 for zero articles and the arithmetic mean otherwise; the
\* dict has the single key news_sentiment_score.
NewsScoreOnly ==
    /\ (news_data # Unset /\ ZeroArticles) =>
          news_data = [news_sentiment_score |-> Rat(0, 1)]
    /\ (news_data # Unset /\ Headlined) =>
          news_data = [news_sentiment_score |-> MeanOf(news_response.data.articles.v)]

\* C9: in one analyze action a score is displayed only after both fetches
\* have completed and both returned a signal; if either fetch returned no
\* signal, no score, explanation or chart is produced for that attempt; and
\* the failure of one fetch does not prevent the other from being attempted.
C9_ScoreOnlyAfterBothFetches ==
    /\ (result # Unset \/ hist_data # Unset) =>
          /\ pc = "done"
          /\ fin_response # Unset /\ news_response # Unset
          /\ financial_data \notin {Unset, None}
          /\ news_data \notin {Unset, None}
    /\ (pc = "done" /\ (financial_data = None \/ news_data = None)) =>
          /\ result = Unset /\ hist_data = Unset
          /\ \A i \in 1..Len(notices) : notices[i][1] # "success"
    /\ (pc \in {"gate", "done"} /\ financial_data = None) =>
          news_response # Unset /\ news_data # Unset
    /\ news_data = None => fin_response # Unset /\ financial_data # Unset
    /\ (pc = "done" /\ financial_data \notin {Unset, None}
           /\ news_data \notin {Unset, None}) => result # Unset

\* C9 happens: the financial fetch failed, the news fetch was still made and
\* returned a signal, and the run ended without a score
C9_Witness ==
    /\ pc = "done"
    /\ financial_data = None
    /\ news_response # Unset
    /\ news_data \notin {Unset, None}
    /\ result = Unset /\ hist_data = Unset

\* C10: the running total before the clamp is one of 10, 30, 40, 50, 60, 70,
\* 80, 90, so the clamp of predict_credit_score leaves it unchanged (the
\* score is never 0 or 100), and the three trend points score-10, score+5,
\* score lie within [0, 100], so their clipping changes nothing either.
C10_ClampsAreNoOps ==
    result # Unset =>
        LET total == 50 + PtsOfLine(result.explanation[2])
                        + PtsOfLine(result.explanation[3])
        IN  /\ total \in {10, 30, 40, 50, 60, 70, 80, 90}
            /\ result.score = total
            /\ hist_data = <<result.score - 10, result.score + 5, result.score>>
            /\ \A i \in 1..3 : hist_data[i] \in 0..100

\* C10 happens: the lowest total, 10, was displayed with the trend 0, 15, 10
C10_Witness ==
    /\ result # Unset
    /\ result.score = 10
    /\ hist_data = <<0, 15, 10>>

====
